---- MODULE Spec2Model ----
(***************************************************************************)
(* Versioned immutable publication protocol of secure-deploy / autark:     *)
(* version resolution, deployment-mode detection, plan building, direct    *)
(* subdomain creation and Safe proposal submission, together with the      *)
(* NameWrapper registry, the public resolver and the Safe multisig they    *)
(* talk to.                                                                *)
(***************************************************************************)
EXTENDS Integers, Sequences, FiniteSets, TLC

(* ------------------------------------------------------------------------ *)
(* Bounds of the model                                                      *)
(* ------------------------------------------------------------------------ *)

\* ceiling of the version scan (the code's default is 200)
maxVersions == 2

\* number of bits of a fuse mask that the bit operations look at
FuseBits == 19

\* largest digest of the content identifiers the codec is evaluated on
MaxDigest == 3

\* ceiling of the version scans of the deployment scripts (the code's value is 100)
scriptVersions == 2

Deployers == {"d1", "d2"}

Slots == 0..maxVersions

(* ------------------------------------------------------------------------ *)
(* Fuses (src/src/namewrapper/fuses.ts)                                     *)
(* ------------------------------------------------------------------------ *)

CANNOT_UNWRAP == 1
CANNOT_BURN_FUSES == 2
CANNOT_TRANSFER == 4
CANNOT_SET_RESOLVER == 8
CANNOT_SET_TTL == 16
CANNOT_CREATE_SUBDOMAIN == 32
CANNOT_APPROVE == 64
PARENT_CANNOT_CONTROL == 65536
CAN_EXTEND_EXPIRY == 262144

RECURSIVE BitOp(_, _, _, _)
\* bitwise combination of a and b over the low n bits; op is "or" or "and"
BitOp(op, a, b, n) ==
    IF n = 0 \/ (a = 0 /\ b = 0) THEN 0
    ELSE LET bit == IF op = "or"
                    THEN (IF (a % 2 = 1) \/ (b % 2 = 1) THEN 1 ELSE 0)
                    ELSE (IF (a % 2 = 1) /\ (b % 2 = 1) THEN 1 ELSE 0)
         IN bit + 2 * BitOp(op, a \div 2, b \div 2, n - 1)

BitOr(a, b) == BitOp("or", a, b, FuseBits)

BitAnd(a, b) == BitOp("and", a, b, FuseBits)

\* the values of the FUSES object, in the order it lists them
FuseEnum ==
    <<CANNOT_UNWRAP, CANNOT_BURN_FUSES, CANNOT_TRANSFER, CANNOT_SET_RESOLVER, CANNOT_SET_TTL,
      CANNOT_CREATE_SUBDOMAIN, CANNOT_APPROVE, PARENT_CANNOT_CONTROL, CAN_EXTEND_EXPIRY>>

RECURSIVE Reduce(_, _, _)
\* fuses.reduce((acc, cur) => acc op cur, acc)
Reduce(op, fuses, acc) ==
    IF fuses = <<>> THEN acc
    ELSE Reduce(op, Tail(fuses), BitOp(op, acc, Head(fuses), FuseBits))

\* the reduction with & in the place of |
getFuseValueAnd(fuses) == Reduce("and", fuses, 0)

\* getFuseValue: fuses.reduce((acc, cur) => acc | cur, 0)
getFuseValue(fuses) == Reduce("or", fuses, 0)

IMMUTABLE_FUSES ==
    BitOr(BitOr(BitOr(CANNOT_UNWRAP, CANNOT_SET_RESOLVER), PARENT_CANNOT_CONTROL),
          CAN_EXTEND_EXPIRY)

hasFuse(fusesValue, fuse) == BitAnd(fusesValue, fuse) = fuse

(* ------------------------------------------------------------------------ *)
(* Account addresses: hex strings whose letters may be upper or lower case. *)
(* The chain identifies an account by its bytes, i.e. case-insensitively;   *)
(* reads return the checksummed (mixed-case) spelling.                      *)
(* ------------------------------------------------------------------------ *)

Lower(c) ==
    CASE c = "A" -> "a"
      [] c = "B" -> "b"
      [] c = "C" -> "c"
      [] OTHER -> c

Upper(c) ==
    CASE c = "a" -> "A"
      [] c = "b" -> "B"
      [] c = "c" -> "C"
      [] OTHER -> c

toLowerCase(s) == [i \in DOMAIN s |-> Lower(s[i])]

\* the spelling a registry read returns for the account whose bytes are s
Checksum(s) == [i \in DOMAIN s |-> IF i = 1 THEN Upper(Lower(s[i])) ELSE Lower(s[i])]

ZERO_ADDRESS == <<"0", "0">>

SafeAccount == <<"A", "b">>

OwnerAccount == <<"C", "1">>

\* spellings of the Safe's address a configuration may hold
SafeSpellings == {<<"A", "b">>, <<"a", "b">>}

(* ------------------------------------------------------------------------ *)
(* Networks, chains and contract addresses                                  *)
(* ------------------------------------------------------------------------ *)

Networks == {"mainnet", "sepolia", "goerli"}

MAINNET_ID == 1

SEPOLIA_ID == 11155111

\* deployCommand: const chain = config.network === 'mainnet' ? mainnet : sepolia
ChainIdOf(network) == IF network = "mainnet" THEN MAINNET_ID ELSE SEPOLIA_ID

\* the name wrapper deployed on a chain
NAME_WRAPPER_ADDRESS(chainId) ==
    <<"NameWrapper", IF chainId = SEPOLIA_ID THEN "sepolia" ELSE "mainnet">>

\* the public resolver of a network
PUBLIC_RESOLVER_ADDRESS(network) == <<"PublicResolver", network>>

(* ------------------------------------------------------------------------ *)
(* Names.  namehash(normalize(name)) is injective on the names used here,   *)
(* so a node is identified by its name: a sequence of labels, the version   *)
(* label `v${i}` being the pair <<"v", i>>.                                 *)
(* ------------------------------------------------------------------------ *)

ParentDomain == <<"demo", "eth">>

VersionLabel(i) == <<"v", i>>

\* `${versionLabel}.${parentDomain}`
FullDomain(label, parentDomain) == <<label>> \o parentDomain

\* version.ts formatVersionLabel / buildFullDomain
buildFullDomain(version, parentDomain) == FullDomain(VersionLabel(version), parentDomain)

(* ------------------------------------------------------------------------ *)
(* Content identifiers and content-hash bytes.  Times are in days since the *)
(* epoch (86400 s), so that the far-future expiry fits a 32-bit integer:    *)
(* 2524608000 s = day 29220, one year = 365 days.                           *)
(* ------------------------------------------------------------------------ *)

IPFS_CODEC == 227

\* varint.encode(0xe3) = [0xe3, 0x01]
VarintIpfs == <<IPFS_CODEC, 1>>

\* the content identifier each deployment's upload returns (bafy...: CIDv1, dag-pb)
CidOf(d) ==
    CASE d = "d1" -> [version |-> 1, codec |-> 112, digest |-> 170]
      [] d = "d2" -> [version |-> 1, codec |-> 112, digest |-> 187]
      [] OTHER -> [version |-> 1, codec |-> 112, digest |-> 204]

\* CID.bytes: a v0 identifier is its bare sha2-256 multihash, a v1 identifier is
\* version, codec, multihash
CidBytes(cid) ==
    IF cid.version = 0 THEN <<18, 32, cid.digest>>
    ELSE <<cid.version, cid.codec, 18, 32, cid.digest>>

\* CID.toV1()
toV1(cid) == [version |-> 1, codec |-> cid.codec, digest |-> cid.digest]

\* core/ens.ts encodeContentHash
encodeContentHash(cid) == VarintIpfs \o CidBytes(toV1(cid))

\* lib/ens/contenthash-encode.ts encodeContenthash
encodeContenthash(cid) == VarintIpfs \o CidBytes(cid)

\* A content identifier as a string: the multibase it is written in and what it
\* spells.  A string that is not well formed (cut short, foreign characters, bytes
\* left over) spells at most the beginning of an identifier.
CidString(base, cid, wellFormed) ==
    [base |-> base, version |-> cid.version, codec |-> cid.codec, digest |-> cid.digest,
     wellFormed |-> wellFormed]

\* CID.parse accepting whatever it can read of the string
CIDParseLenient(source) ==
    [ok |-> TRUE,
     cid |-> [version |-> source.version, codec |-> source.codec, digest |-> source.digest]]

\* CID.parse(source): throws unless the whole string is one identifier
CIDParse(source) ==
    [ok |-> source.wellFormed,
     cid |-> [version |-> source.version, codec |-> source.codec, digest |-> source.digest]]

\* cid.toString(): a v0 identifier is written in base58btc ("Qm..."), a v1
\* identifier in base32 ("b...")
CidToString(cid) ==
    CidString(IF cid.version = 0 THEN "base58btc" ELSE "base32", cid, TRUE)

RECURSIVE VarintLength(_, _)
\* varint.decode.bytes: the bytes of the varint that starts at position k
VarintLength(bytes, k) ==
    IF bytes[k] >= 128 THEN 1 + VarintLength(bytes, k + 1) ELSE 1

\* CID.decode(bytes): bytes that start with the sha2-256 multihash code 0x12 are a v0
\* identifier (dag-pb), any other start is version, codec, multihash
CidDecode(bytes) ==
    IF bytes[1] = 18
    THEN [version |-> 0, codec |-> 112, digest |-> bytes[3]]
    ELSE [version |-> bytes[1], codec |-> bytes[2], digest |-> bytes[5]]

\* lib/ens/contenthash.ts decodeIPFSContenthash
decodeIPFSContenthash(contenthash) ==
    LET codecLength == VarintLength(contenthash, 1)
        cidBytes == SubSeq(contenthash, codecLength + 1, Len(contenthash))
    IN CidToString(CidDecode(cidBytes))

EXPIRY_FAR_FUTURE == 29220

ONE_YEAR == 365

\* days on which a deployment may run
Times == {20762, 28855}

(* ------------------------------------------------------------------------ *)
(* Operations (encoded calls).  One record shape for both calls; the fields *)
(* a call does not have are empty.                                          *)
(* ------------------------------------------------------------------------ *)

SetSubnodeRecordCall(to, parentNode, label, owner, resolver, ttl, fuses, expiry) ==
    [to |-> to, fn |-> "setSubnodeRecord", parentNode |-> parentNode, label |-> label,
     owner |-> owner, resolver |-> resolver, ttl |-> ttl, fuses |-> fuses,
     expiry |-> expiry, node |-> <<>>, contenthash |-> <<>>]

SetContenthashCall(to, node, contenthash) ==
    [to |-> to, fn |-> "setContenthash", parentNode |-> <<>>, label |-> <<>>,
     owner |-> <<>>, resolver |-> <<>>, ttl |-> 0, fuses |-> 0,
     expiry |-> 0, node |-> node, contenthash |-> contenthash]

SetFusesCall(to, node, fuses) ==
    [to |-> to, fn |-> "setFuses", parentNode |-> <<>>, label |-> <<>>,
     owner |-> <<>>, resolver |-> <<>>, ttl |-> 0, fuses |-> fuses,
     expiry |-> 0, node |-> node, contenthash |-> <<>>]

(* ------------------------------------------------------------------------ *)
(* Version resolution (lib/ens/version.ts)                                  *)
(* ------------------------------------------------------------------------ *)

\* the answer of one ownerOf read: the owner, or an error when the read throws
ReadOwner(owners, failing, i) ==
    IF i \in failing THEN [ok |-> FALSE, owner |-> ZERO_ADDRESS]
    ELSE [ok |-> TRUE, owner |-> owners[i]]

RECURSIVE ScanFrom(_, _, _, _, _, _)
\* the for loop of detectNextVersion from iteration i on; owners[j] is what the
\* registry holds for slot j, failing the slots whose read throws
ScanFrom(i, limit, owners, failing, existing, nextVersion) ==
    IF i >= limit
    THEN [version |-> nextVersion, existing |-> existing]
    ELSE LET read == ReadOwner(owners, failing, i) IN
         IF ~read.ok
         THEN [version |-> nextVersion, existing |-> existing]   \* catch: break
         ELSE IF read.owner = ZERO_ADDRESS
         THEN [version |-> nextVersion, existing |-> existing]   \* break
         ELSE ScanFrom(i + 1, limit, owners, failing,
                       Append(existing, VersionLabel(i)), i + 1)

RECURSIVE ScanErrorsOccupied(_, _, _, _, _, _)
\* the loop with a read that throws counted as an occupied slot
ScanErrorsOccupied(i, limit, owners, failing, existing, nextVersion) ==
    IF i >= limit
    THEN [version |-> nextVersion, existing |-> existing]
    ELSE LET read == ReadOwner(owners, failing, i) IN
         IF read.ok /\ read.owner = ZERO_ADDRESS
         THEN [version |-> nextVersion, existing |-> existing]
         ELSE ScanErrorsOccupied(i + 1, limit, owners, failing,
                                 Append(existing, VersionLabel(i)), i + 1)

detectNextVersionErrorsOccupied(owners, failing, limit) ==
    ScanErrorsOccupied(0, limit, owners, failing, <<>>, 0)

detectNextVersion(owners, failing, limit) == ScanFrom(0, limit, owners, failing, <<>>, 0)

\* did the scan perform a read that threw?  (it reads slot i iff i is below the
\* limit and every earlier slot answered with an owner)
ScanHitError(owners, failing, limit) ==
    \E i \in failing:
        /\ i < limit
        /\ \A j \in 0..(i - 1): j \notin failing /\ owners[j] # ZERO_ADDRESS

(* ------------------------------------------------------------------------ *)
(* Plans (lib/ens/deploy.ts) and Safe batches (lib/ens/safe-batch-deploy.ts)*)
(* ------------------------------------------------------------------------ *)

\* the plan with the sender of the create-child call as the owner of the new node
createDeploymentPlanForSender(parentDomain, versionLabel, cid, safeAddress, chainId, network) ==
    LET fullDomain == FullDomain(versionLabel, parentDomain)
        contentHash == encodeContentHash(cid)
        resolverAddress == PUBLIC_RESOLVER_ADDRESS(network)
    IN [createSubdomainTx |->
            SetSubnodeRecordCall(NAME_WRAPPER_ADDRESS(chainId), parentDomain, versionLabel,
                                 OwnerAccount, resolverAddress, 0, IMMUTABLE_FUSES,
                                 EXPIRY_FAR_FUTURE),
        setContenthashTx |-> SetContenthashCall(resolverAddress, fullDomain, contentHash),
        fullDomain |-> fullDomain,
        versionLabel |-> versionLabel,
        parentDomain |-> parentDomain,
        cid |-> cid,
        contentHash |-> contentHash]

createDeploymentPlan(parentDomain, versionLabel, cid, safeAddress, chainId, network) ==
    LET fullDomain == FullDomain(versionLabel, parentDomain)
        contentHash == encodeContentHash(cid)
        resolverAddress == PUBLIC_RESOLVER_ADDRESS(network)
    IN [createSubdomainTx |->
            SetSubnodeRecordCall(NAME_WRAPPER_ADDRESS(chainId), parentDomain, versionLabel,
                                 safeAddress, resolverAddress, 0, IMMUTABLE_FUSES,
                                 EXPIRY_FAR_FUTURE),
        setContenthashTx |-> SetContenthashCall(resolverAddress, fullDomain, contentHash),
        fullDomain |-> fullDomain,
        versionLabel |-> versionLabel,
        parentDomain |-> parentDomain,
        cid |-> cid,
        contentHash |-> contentHash]

\* the constant with 0x0002 in the place of 0x0080
BatchFusesWithBurn == BitOr(BitOr(1, 2), 65536)

\* const fuses = 0x0001 | 0x0080 | 0x10000
BatchFuses == BitOr(BitOr(1, 128), 65536)

\* the resolver both batch functions pick: chainId === 11155111 ? 'sepolia' : 'mainnet'
BatchResolver(chainId) ==
    PUBLIC_RESOLVER_ADDRESS(IF chainId = SEPOLIA_ID THEN "sepolia" ELSE "mainnet")

encodeSafeBatchDeploy(parentDomain, subdomain, safeAddress, cid, chainId, expiryTimestamp) ==
    LET label == VersionLabel(subdomain)
        subdomainFqdn == FullDomain(label, parentDomain)
        resolverAddress == BatchResolver(chainId)
    IN [createSubdomainData |->
            SetSubnodeRecordCall(<<>>, parentDomain, label, safeAddress, resolverAddress,
                                 0, BatchFuses, expiryTimestamp),
        setContenthashData |-> SetContenthashCall(<<>>, subdomainFqdn, encodeContenthash(cid)),
        subdomainFqdn |-> subdomainFqdn]

\* the batch without its second call
BatchTransactionsCreateOnly(chainId, batchResult) ==
    << [batchResult.createSubdomainData EXCEPT !.to = NAME_WRAPPER_ADDRESS(chainId)] >>

\* the batch with its two calls in the other order
BatchTransactionsSwapped(chainId, batchResult) ==
    << [batchResult.setContenthashData EXCEPT !.to = BatchResolver(chainId)],
       [batchResult.createSubdomainData EXCEPT !.to = NAME_WRAPPER_ADDRESS(chainId)] >>

\* the transactions submitToSafeService puts into its one Safe transaction
BatchTransactions(chainId, batchResult) ==
    << [batchResult.createSubdomainData EXCEPT !.to = NAME_WRAPPER_ADDRESS(chainId)],
       [batchResult.setContenthashData EXCEPT !.to = BatchResolver(chainId)] >>

(* ------------------------------------------------------------------------ *)
(* State                                                                    *)
(* ------------------------------------------------------------------------ *)

VARIABLES
    network,      \* config.network
    safeAddress,  \* config.safeAddress, as spelled in the configuration
    threshold,    \* the Safe's threshold
    parent,       \* the parent name in the name wrapper: [owner, fuses]
    nodes,        \* the version nodes in the name wrapper, by slot
    contents,     \* the content hash the chain's public resolver holds, by slot
    proposals,    \* the Safe transaction each invocation submitted, if any
    directTxs,    \* the calls each invocation sent directly with the owner's key
    pc,           \* where each deployCommand invocation stands
    opts,         \* the options of each invocation
    local,        \* the local values of each invocation
    history,      \* what happened to each slot and each invocation (for the properties)
    calc          \* the evaluation of a pure function on its own: input, stage, result

vars == <<network, safeAddress, threshold, parent, nodes, contents, proposals,
          directTxs, pc, opts, local, history, calc>>

chainId == ChainIdOf(network)

\* no pure function is being evaluated on its own
NoCalc == [fn |-> "none"]

NoNode == [owner |-> ZERO_ADDRESS, fuses |-> 0, expiry |-> 0, resolver |-> <<>>]

NoCall == SetContenthashCall(<<>>, <<>>, <<>>)

NoPlan == createDeploymentPlan(<<>>, <<>>, CidOf("d1"), <<>>, MAINNET_ID, "mainnet")

NoProposal == [kind |-> "none", transactions |-> <<>>, approvals |-> 0, status |-> "none"]

NoLocal == [version |-> 0, existing |-> <<>>, plan |-> NoPlan, safeOwnsParent |-> FALSE,
            tx |-> NoCall]

NoHistory ==
    [createdBy |-> [i \in Slots |-> <<>>],      \* <<kind, deployer>> of the creation
     writers   |-> [i \in Slots |-> <<>>],      \* deployers whose content was written
     readError |-> [d \in Deployers |-> FALSE], \* a read of d's scan threw
     scans     |-> [d \in Deployers |-> 0],     \* scans d has run
     resolved  |-> [d \in Deployers |-> 0],     \* the slot d's last scan returned
     conflict  |-> [d \in Deployers |-> FALSE], \* d's create-child met an existing node
     burned    |-> [d \in Deployers |-> FALSE], \* d's burn changed the parent's fuses
     outcome   |-> [d \in Deployers |-> "none"]]

Exists(node) == node.owner # ZERO_ADDRESS

\* what ownerOf returns for every slot
Owners == [i \in Slots |-> nodes[i].owner]

SameAccount(a, b) == toLowerCase(a) = toLowerCase(b)

(* ------------------------------------------------------------------------ *)
(* The chain: name wrapper and public resolver                              *)
(* ------------------------------------------------------------------------ *)

SlotOfLabel(label) == label[2]

SlotOfNode(node) == node[1][2]

\* would this call, sent by sender, succeed on registry state (par, nds)?
CallSucceeds(sender, call, par, nds) ==
    CASE call.fn = "setSubnodeRecord" ->
            /\ call.to = NAME_WRAPPER_ADDRESS(chainId)
            /\ call.parentNode = ParentDomain
            /\ SameAccount(sender, par.owner)
            /\ ~(Exists(nds[SlotOfLabel(call.label)])
                 /\ hasFuse(nds[SlotOfLabel(call.label)].fuses, PARENT_CANNOT_CONTROL))
            /\ (hasFuse(call.fuses, PARENT_CANNOT_CONTROL) => hasFuse(par.fuses, CANNOT_UNWRAP))
      [] call.fn = "setContenthash" ->
            \/ call.to # BatchResolver(chainId)      \* no contract there: the call does nothing
            \/ /\ Exists(nds[SlotOfNode(call.node)])
               /\ SameAccount(sender, nds[SlotOfNode(call.node)].owner)
      [] call.fn = "setFuses" ->
            /\ call.to = NAME_WRAPPER_ADDRESS(chainId)
            /\ call.node = ParentDomain
            /\ SameAccount(sender, par.owner)
      [] OTHER -> FALSE

\* the registry state [parent, nodes, contents] after a successful call
ApplyCall(call, reg) ==
    CASE call.fn = "setSubnodeRecord" ->
            [reg EXCEPT !.nodes[SlotOfLabel(call.label)] =
                [owner |-> Checksum(call.owner), fuses |-> call.fuses,
                 expiry |-> call.expiry, resolver |-> call.resolver]]
      [] call.fn = "setContenthash" ->
            IF call.to = BatchResolver(chainId)
            THEN [reg EXCEPT !.contents[SlotOfNode(call.node)] = call.contenthash]
            ELSE reg
      [] call.fn = "setFuses" ->
            [reg EXCEPT !.parent.fuses = BitOr(reg.parent.fuses, call.fuses)]
      [] OTHER -> reg

Registry == [parent |-> parent, nodes |-> nodes, contents |-> contents]

RECURSIVE RunCalls(_, _, _)
\* a Safe transaction runs its calls in order: [ok, reg], ok false as soon as one reverts
RunCalls(sender, calls, reg) ==
    IF calls = <<>> THEN [ok |-> TRUE, reg |-> reg]
    ELSE IF ~CallSucceeds(sender, Head(calls), reg.parent, reg.nodes)
         THEN [ok |-> FALSE, reg |-> reg]
         ELSE RunCalls(sender, Tail(calls), ApplyCall(Head(calls), reg))

\* a multi-send Safe transaction is all or nothing
ExecuteSafeTransaction(calls, reg) ==
    LET r == RunCalls(SafeAccount, calls, reg)
    IN IF r.ok THEN r ELSE [ok |-> FALSE, reg |-> reg]

\* history after calls (sent on behalf of deployment d, as kind) took reg to reg2
Record(h, kind, d, calls, reg, reg2) ==
    [h EXCEPT
       !.createdBy = [i \in Slots |->
            IF \E k \in DOMAIN calls:
                  calls[k].fn = "setSubnodeRecord" /\ SlotOfLabel(calls[k].label) = i
            THEN <<kind, d>> ELSE @[i]],
       !.writers = [i \in Slots |->
            IF \E k \in DOMAIN calls:
                  /\ calls[k].fn = "setContenthash"
                  /\ SlotOfNode(calls[k].node) = i
                  /\ calls[k].to = BatchResolver(chainId)
            THEN Append(@[i], d) ELSE @[i]]]

(* ------------------------------------------------------------------------ *)
(* deployCommand, one action per step between two awaits                    *)
(* ------------------------------------------------------------------------ *)

\* no content identifier
NoCid == CidString("", [version |-> 0, codec |-> 0, digest |-> 0], FALSE)

NoOpts == [dryRun |-> FALSE, safeOwnsParent |-> "undefined", cid |-> NoCid]

\* uploadToIPFS: what output.match(/bafy[a-z0-9]+/i) may take from the upload's
\* output: the identifier of the upload, or a run of characters that is none
Uploads(d) ==
    {CidString("base32", CidOf(d), wellFormed) : wellFormed \in BOOLEAN}

\* the invocation ends (return, process.exit or an uncaught error): its options
\* and local values are gone
Exit(d, how, h) ==
    /\ pc' = [pc EXCEPT ![d] = how]
    /\ local' = [local EXCEPT ![d] = NoLocal]
    /\ opts' = [opts EXCEPT ![d] = NoOpts]
    /\ history' = h

\* catch (error) { ... process.exit(1) }
Fail(d, h) == Exit(d, "failed", [h EXCEPT !.outcome[d] = "failed"])

\* loadConfig .. initSafeClient: options are read, the build is uploaded, the
\* clients are created; any of these may throw
Start(d) ==
    /\ pc[d] = "idle"
    /\ \/ /\ \E dryRun \in BOOLEAN, cid \in Uploads(d):
                opts' = [opts EXCEPT ![d].dryRun = dryRun, ![d].cid = cid]
          /\ pc' = [pc EXCEPT ![d] = "detect"]
          /\ UNCHANGED history
          /\ UNCHANGED local
       \/ Fail(d, history)
    /\ UNCHANGED <<calc, network, safeAddress, threshold, parent, nodes, contents, proposals,
                   directTxs>>

\* the run going on after the plan whatever the options say
NeverReturnsAfterPlan(options) == FALSE

\* if (options.dryRun) { ...; return }
ReturnsAfterPlan(options) == options.dryRun

\* Step 5 and 6 and the dry-run return: detectNextVersion, createDeploymentPlan
\* (which parses the content identifier and throws if it cannot)
ResolveVersion(d) ==
    /\ pc[d] = "detect"
    /\ \E failing \in SUBSET (0..(maxVersions - 1)):
          LET r == detectNextVersion(Owners, failing, maxVersions)
              parsed == CIDParse(opts[d].cid)
              plan == createDeploymentPlan(ParentDomain, VersionLabel(r.version), parsed.cid,
                                           safeAddress, chainId, network)
              h == [history EXCEPT
                      !.scans[d] = @ + 1,
                      !.resolved[d] = r.version,
                      !.readError[d] = ScanHitError(Owners, failing, maxVersions)]
          IN \/ /\ ~parsed.ok
                /\ Exit(d, "failed", [h EXCEPT !.outcome[d] = "invalidCid"])
             \/ /\ parsed.ok
                /\ ReturnsAfterPlan(opts[d])
                /\ Exit(d, "done", [h EXCEPT !.outcome[d] = "dryRun"])
             \/ /\ parsed.ok
                /\ ~ReturnsAfterPlan(opts[d])
                /\ local' = [local EXCEPT ![d] = [@ EXCEPT !.version = r.version,
                                                           !.existing = r.existing,
                                                           !.plan = plan]]
                /\ history' = h
                /\ pc' = [pc EXCEPT ![d] = "mode"]
                /\ UNCHANGED opts
    /\ UNCHANGED <<calc, network, safeAddress, threshold, parent, nodes, contents, proposals,
                   directTxs>>

\* the comparison without the case folding
OwnerIsSafeExact(owner, configured) == owner = configured

\* the comparison of Step 7
OwnerIsSafe(owner, configured) == toLowerCase(owner) = toLowerCase(configured)

\* Step 7: let safeOwnsParent = options.safeOwnsParent; auto-detected when undefined
ModeOf(option, owner, configured) ==
    IF option = "undefined" THEN OwnerIsSafe(owner, configured) ELSE option = "true"

\* (options.safeOwnsParent is read here for the first time, so its value is
\* drawn here)
DetectMode(d) ==
    /\ pc[d] = "mode"
    /\ \/ /\ \E option \in {"undefined", "true", "false"}:
                /\ opts' = [opts EXCEPT ![d].safeOwnsParent = option]
                /\ local' = [local EXCEPT ![d].safeOwnsParent =
                                ModeOf(option, parent.owner, safeAddress)]
          /\ pc' = [pc EXCEPT ![d] = "fuses"]
          /\ UNCHANGED history
       \/ Fail(d, history)          \* getSubdomainInfo throws
    /\ UNCHANGED <<calc, network, safeAddress, threshold, parent, nodes, contents, proposals,
                   directTxs>>

\* the check reporting the fuse as burned whatever the parent's fuses are
needsBurnNever(currentFuses) == FALSE

\* checkParentFuses
needsBurn(currentFuses) == ~(BitAnd(currentFuses, CANNOT_UNWRAP) = CANNOT_UNWRAP)

\* the call burnParentFuses sends
BurnCall == SetFusesCall(NAME_WRAPPER_ADDRESS(chainId), ParentDomain, CANNOT_UNWRAP)

\* Step 8: checkParentFuses, and when the fuse is missing either exit or, after
\* the operator's consent, send the burn transaction
CheckParentFuses(d) ==
    /\ pc[d] = "fuses"
    /\ \/ /\ ~needsBurn(parent.fuses)
          /\ pc' = [pc EXCEPT ![d] = "execute"]
          /\ UNCHANGED <<history, local, directTxs, opts>>
       \/ /\ needsBurn(parent.fuses)
          /\ ~local[d].safeOwnsParent
          /\ CallSucceeds(OwnerAccount, BurnCall, parent, nodes)   \* writeContract simulates
          /\ pc' = [pc EXCEPT ![d] = "burnWait"]
          /\ local' = [local EXCEPT ![d].tx = BurnCall]
          /\ directTxs' = [directTxs EXCEPT ![d] = Append(@, BurnCall)]
          /\ UNCHANGED <<history, opts>>
       \/ /\ Fail(d, history)   \* read throws, Safe owns the parent, operator declines, send throws
          /\ UNCHANGED directTxs
    /\ UNCHANGED <<calc, network, safeAddress, threshold, parent, nodes, contents, proposals>>

\* waitForTransactionReceipt of the burn: the transaction is mined, with or
\* without effect; the receipt's status is not looked at
MineBurn(d) ==
    /\ pc[d] = "burnWait"
    /\ parent' = IF CallSucceeds(OwnerAccount, local[d].tx, parent, nodes)
                 THEN ApplyCall(local[d].tx, Registry).parent
                 ELSE parent
    /\ history' = [history EXCEPT !.burned[d] = @ \/ (parent' # parent)]
    /\ pc' = [pc EXCEPT ![d] = "execute"]
    /\ UNCHANGED <<calc, network, safeAddress, threshold, nodes, contents, proposals, directTxs,
                   opts, local>>

\* Step 9, Safe-owns-parent: encodeSafeBatchDeploy and submitToSafeService
SubmitBatch(d) ==
    /\ pc[d] = "execute"
    /\ local[d].safeOwnsParent
    /\ \/ /\ \E now \in Times:
                LET batchResult == encodeSafeBatchDeploy(ParentDomain, local[d].version,
                                       safeAddress, CIDParse(opts[d].cid).cid, chainId,
                                       now + ONE_YEAR)
                IN proposals' = [proposals EXCEPT ![d] =
                        [kind |-> "batch",
                         transactions |-> BatchTransactions(chainId, batchResult),
                         approvals |-> 1, status |-> "pending"]]
          /\ Exit(d, "done", [history EXCEPT !.outcome[d] = "proposed"])
       \/ /\ Fail(d, history)          \* ENSError: Failed to submit to Safe
          /\ UNCHANGED proposals
    /\ UNCHANGED <<calc, network, safeAddress, threshold, parent, nodes, contents, directTxs>>

\* does the call fail because the node it creates is already there?
NodeAlreadyExists(call) ==
    /\ Exists(nodes[SlotOfLabel(call.label)])
    /\ hasFuse(nodes[SlotOfLabel(call.label)].fuses, PARENT_CANNOT_CONTROL)

\* Step 9, personal-owns-parent, createSubdomainDirect up to sendTransaction:
\* the transaction is simulated (gas estimation) and, if that succeeds, broadcast
SendCreate(d) ==
    /\ pc[d] = "execute"
    /\ ~local[d].safeOwnsParent
    /\ LET call == local[d].plan.createSubdomainTx IN
       \/ /\ CallSucceeds(OwnerAccount, call, parent, nodes)
          /\ pc' = [pc EXCEPT ![d] = "createWait"]
          /\ local' = [local EXCEPT ![d].tx = call]
          /\ directTxs' = [directTxs EXCEPT ![d] = Append(@, call)]
          /\ UNCHANGED <<history, opts>>
       \/ /\ ~CallSucceeds(OwnerAccount, call, parent, nodes)
          /\ Fail(d, [history EXCEPT !.conflict[d] = NodeAlreadyExists(call)])
          /\ UNCHANGED directTxs
    /\ UNCHANGED <<calc, network, safeAddress, threshold, parent, nodes, contents, proposals>>

\* createSubdomainDirect, waitForTransactionReceipt: the transaction is mined and
\* either takes effect or reverts; the receipt's status is not looked at
MineCreate(d) ==
    /\ pc[d] = "createWait"
    /\ LET call == local[d].tx
           ok == CallSucceeds(OwnerAccount, call, parent, nodes)
           reg == IF ok THEN ApplyCall(call, Registry) ELSE Registry
       IN /\ nodes' = reg.nodes
          /\ history' = IF ok THEN Record(history, "direct", d, <<call>>, Registry, reg)
                        ELSE [history EXCEPT !.conflict[d] = NodeAlreadyExists(call)]
    /\ pc' = [pc EXCEPT ![d] = "propose"]
    /\ UNCHANGED <<calc, network, safeAddress, threshold, parent, contents, proposals, directTxs,
                   opts, local>>

\* client.send executing whatever the threshold is
SendExecutesAlways(safeThreshold) == TRUE

\* client.send: "handles both immediate execution (threshold=1) and creating
\* proposals (threshold>1)"
SendExecutesAtOnce(safeThreshold) == safeThreshold = 1

\* sendSafeTransaction(safeClient, plan.setContenthashTx): client.send executes at
\* once when the threshold is 1 and proposes otherwise
ProposeContent(d) ==
    /\ pc[d] = "propose"
    /\ LET calls == <<local[d].plan.setContenthashTx>>
           run == ExecuteSafeTransaction(calls, Registry)
       IN \/ /\ ~SendExecutesAtOnce(threshold)
             /\ proposals' = [proposals EXCEPT ![d] =
                    [kind |-> "content", transactions |-> calls,
                     approvals |-> 1, status |-> "pending"]]
             /\ Exit(d, "done", [history EXCEPT !.outcome[d] = "created"])
             /\ UNCHANGED contents
          \/ /\ SendExecutesAtOnce(threshold)
             /\ run.ok
             /\ proposals' = [proposals EXCEPT ![d] =
                    [kind |-> "content", transactions |-> calls,
                     approvals |-> 1, status |-> "executed"]]
             /\ contents' = run.reg.contents
             /\ Exit(d, "done", [Record(history, "proposal", d, calls, Registry, run.reg)
                                   EXCEPT !.outcome[d] = "created"])
          \/ /\ Fail(d, history)       \* SafeError: Safe transaction failed
             /\ UNCHANGED <<proposals, contents>>
    /\ UNCHANGED <<calc, network, safeAddress, threshold, parent, nodes, directTxs>>

(* ------------------------------------------------------------------------ *)
(* The Safe's owners and the parent's owner                                 *)
(* ------------------------------------------------------------------------ *)

\* another owner of the Safe confirms a pending transaction
Approve(p) ==
    /\ proposals[p].status = "pending"
    /\ proposals[p].approvals < threshold
    /\ proposals' = [proposals EXCEPT ![p].approvals = @ + 1]
    /\ UNCHANGED <<calc, network, safeAddress, threshold, parent, nodes, contents, directTxs,
                   pc, opts, local, history>>

\* anyone executes a transaction that has its confirmations; a transaction one of
\* whose calls reverts cannot be executed
Execute(p) ==
    /\ proposals[p].status = "pending"
    /\ proposals[p].approvals >= threshold
    /\ LET run == ExecuteSafeTransaction(proposals[p].transactions, Registry) IN
       /\ run.ok
       /\ parent' = run.reg.parent
       /\ nodes' = run.reg.nodes
       /\ contents' = run.reg.contents
       /\ history' = Record(history, "proposal", p,
                            proposals[p].transactions, Registry, run.reg)
    /\ proposals' = [proposals EXCEPT ![p].status = "executed"]
    /\ UNCHANGED <<calc, network, safeAddress, threshold, directTxs, pc, opts, local>>

\* the Safe's owners reject a pending transaction
Reject(p) ==
    /\ proposals[p].status = "pending"
    /\ proposals' = [proposals EXCEPT ![p].status = "rejected"]
    /\ UNCHANGED <<calc, network, safeAddress, threshold, parent, nodes, contents, directTxs,
                   pc, opts, local, history>>

\* the individual hands the parent name to the Safe (transfer-to-safe script)
TransferParentToSafe ==
    /\ SameAccount(parent.owner, OwnerAccount)
    /\ parent' = [parent EXCEPT !.owner = SafeAccount]
    /\ UNCHANGED <<calc, network, safeAddress, threshold, nodes, contents, proposals, directTxs,
                   pc, opts, local, history>>

(* ------------------------------------------------------------------------ *)
(* Specification                                                            *)
(* ------------------------------------------------------------------------ *)

\* a version node as an earlier personal-mode deployment left it
PublishedNode ==
    [owner |-> SafeAccount, fuses |-> IMMUTABLE_FUSES, expiry |-> EXPIRY_FAR_FUTURE,
     resolver |-> BatchResolver(chainId)]

\* the registry after earlier deployments have published v0 .. v(published-1); the
\* name wrapper lets a parent emancipate a child only once its own CANNOT_UNWRAP
\* is burned
PublishedBefore(published) ==
    /\ nodes = [i \in Slots |-> IF i < published THEN PublishedNode ELSE NoNode]
    /\ contents = [i \in Slots |->
          IF i < published THEN encodeContentHash(CidOf("earlier")) ELSE <<>>]
    /\ parent \in [owner : {OwnerAccount, SafeAccount}, fuses : {0, CANNOT_UNWRAP}]
    /\ published > 0 => hasFuse(parent.fuses, CANNOT_UNWRAP)

\* the registry is new, or holds as many versions as a scan reads
Init ==
    /\ network \in Networks
    /\ safeAddress \in SafeSpellings
    /\ threshold \in {1, 2}
    /\ \E published \in {0, maxVersions}: PublishedBefore(published)
    /\ proposals = [d \in Deployers |-> NoProposal]
    /\ directTxs = [d \in Deployers |-> <<>>]
    /\ pc = [d \in Deployers |-> "idle"]
    /\ opts = [d \in Deployers |-> NoOpts]
    /\ local = [d \in Deployers |-> NoLocal]
    /\ history = NoHistory
    /\ calc = NoCalc

Next ==
    \/ \E d \in Deployers: Start(d)
    \/ \E d \in Deployers: ResolveVersion(d)
    \/ \E d \in Deployers: DetectMode(d)
    \/ \E d \in Deployers: CheckParentFuses(d)
    \/ \E d \in Deployers: MineBurn(d)
    \/ \E d \in Deployers: SubmitBatch(d)
    \/ \E d \in Deployers: SendCreate(d)
    \/ \E d \in Deployers: MineCreate(d)
    \/ \E d \in Deployers: ProposeContent(d)
    \/ \E p \in Deployers: Approve(p)
    \/ \E p \in Deployers: Execute(p)
    \/ \E p \in Deployers: Reject(p)
    \/ TransferParentToSafe

Spec == Init /\ [][Next]_vars

(* ------------------------------------------------------------------------ *)
(* Version resolution on its own: the registry holds the version nodes of   *)
(* any number of earlier deployments, and invocations scan it.              *)
(* ------------------------------------------------------------------------ *)

InitResolve ==
    /\ network \in Networks
    /\ safeAddress \in SafeSpellings
    /\ threshold \in {1, 2}
    /\ \E published \in 0..(maxVersions + 1): PublishedBefore(published)
    /\ proposals = [d \in Deployers |-> NoProposal]
    /\ directTxs = [d \in Deployers |-> <<>>]
    /\ pc = [d \in Deployers |-> "idle"]
    /\ opts = [d \in Deployers |-> NoOpts]
    /\ local = [d \in Deployers |-> NoLocal]
    /\ history = NoHistory
    /\ calc = NoCalc

NextResolve ==
    \/ \E d \in Deployers: Start(d)
    \/ \E d \in Deployers: ResolveVersion(d)

SpecResolve == InitResolve /\ [][NextResolve]_vars

(* ------------------------------------------------------------------------ *)
(* Properties                                                               *)
(* ------------------------------------------------------------------------ *)

CreatedByBatch(i) == history.createdBy[i] # <<>> /\ history.createdBy[i][1] = "proposal"

\* C1: in Safe-owns-parent mode create-child and set-content-pointer apply together:
\* a version node created by a Safe batch has its content hash set, and a batch that
\* was rejected or not executed has created no node.
C1_BatchIsAtomic ==
    /\ \A i \in Slots: CreatedByBatch(i) => Exists(nodes[i]) /\ contents[i] # <<>>
    /\ \A d \in Deployers:
          (proposals[d].kind = "batch" /\ proposals[d].status # "executed")
             => \A i \in Slots: history.createdBy[i] # <<"proposal", d>>

C1_Witness ==
    /\ \E i \in Slots: CreatedByBatch(i) /\ contents[i] # <<>>
    /\ \E d \in Deployers: proposals[d].kind = "batch" /\ proposals[d].status = "rejected"

\* every call an invocation has sent directly or proposed to the Safe
SentCalls ==
    UNION {{directTxs[d][k] : k \in DOMAIN directTxs[d]}
           \cup {proposals[d].transactions[k] : k \in DOMAIN proposals[d].transactions}
           : d \in Deployers}

\* C2: the fuse value of every create-child call that a deployment sends or proposes is
\* CANNOT_UNWRAP | CANNOT_SET_RESOLVER | PARENT_CANNOT_CONTROL | CAN_EXTEND_EXPIRY = 327689.
C2_FusesArePermanentPublication ==
    \A c \in SentCalls: c.fn = "setSubnodeRecord" => c.fuses = 327689

\* the node of slot i is published: created with the permanent-publication fuses, content set
Terminal(i) ==
    Exists(nodes[i]) /\ nodes[i].fuses = IMMUTABLE_FUSES /\ contents[i] # <<>>

\* C3: once a version node is created with the permanent-publication fuses and has its
\* content pointer set, no later step changes that content pointer.
C3_TerminalContentIsFrozen ==
    [][\A i \in Slots: Terminal(i) => contents'[i] = contents[i]]_vars

\* C4: a scan in which a registry read threw returns no version: the invocation aborts.
C4_ReadErrorAborts ==
    \A d \in Deployers: history.readError[d] => pc[d] = "failed"

\* the invocations that created slot i or had their content written to it
Winners(i) ==
    (IF history.createdBy[i] = <<>> THEN {} ELSE {history.createdBy[i][2]})
    \cup {history.writers[i][k] : k \in DOMAIN history.writers[i]}

\* C5: a version slot is won by at most one deployment: no label is created by, or
\* carries the content of, two deployments.
C5_AtMostOneWinner == \A i \in Slots: Cardinality(Winners(i)) <= 1

\* C6: a deployment whose create-child met an already existing node does not end as a
\* failure and does not end before it has scanned again for the next free slot.
C6_ConflictIsRetried ==
    \A d \in Deployers:
        (history.conflict[d] /\ pc[d] \in {"done", "failed"})
           => pc[d] = "done" /\ history.scans[d] >= 2

\* the labels v0 .. v(n-1)
LabelsBelow(n) == [j \in 1..n |-> VersionLabel(j - 1)]

\* slot n is free and every slot below it is occupied (slots beyond the registry's
\* modelled range are free)
SmallestFree(n) ==
    /\ n \in Slots => ~Exists(nodes[n])
    /\ \A j \in 0..(n - 1): j \in Slots /\ Exists(nodes[j])

\* the step in which invocation d's scan returns
ScanReturns(d) == pc[d] = "detect" /\ history'.scans[d] = history.scans[d] + 1

\* C7: when every read succeeds, the scan returns the smallest slot whose owner is
\* zero, and the labels of the slots below it in increasing order.
C7_ReturnsSmallestFree ==
    [][\A d \in Deployers:
          (ScanReturns(d) /\ ~history'.readError[d])
             => /\ SmallestFree(history'.resolved[d])
                /\ pc'[d] = "mode" => local'[d].existing = LabelsBelow(local'[d].version)]_vars

ModeDecided(d) == pc[d] = "mode" /\ pc'[d] = "fuses"

C10_BatchProposal ==
    \A d \in Deployers:
        /\ (local[d].safeOwnsParent /\ pc[d] = "execute")
              => directTxs[d] = <<>> /\ proposals[d] = NoProposal
        /\ history.outcome[d] = "proposed" <=> proposals[d].kind = "batch"
        /\ proposals[d].kind = "batch"
              => LET t == proposals[d].transactions
                     n == history.resolved[d]
                 IN /\ Len(t) = 2
                    /\ t[1].fn = "setSubnodeRecord"
                    /\ t[1].to = NAME_WRAPPER_ADDRESS(chainId)
                    /\ t[1].parentNode = ParentDomain
                    /\ t[1].label = <<"v", n>>
                    /\ t[2].fn = "setContenthash"
                    /\ t[2].to \in {PUBLIC_RESOLVER_ADDRESS(x) : x \in Networks}
                    /\ t[2].node = <<<<"v", n>>>> \o ParentDomain
                    /\ t[2].contenthash = <<227, 1, 1, 112, 18, 32, CidOf(d).digest>>
                    /\ directTxs[d] = <<>>

C10_Witness ==
    \E d \in Deployers: history.outcome[d] = "proposed" /\ history.resolved[d] = 1

\* the node invocation d resolved was created by d's own direct transaction
CreatedDirectlyBy(d) == history.createdBy[history.resolved[d]] = <<"direct", d>>

\* C11: in personal-owns-parent mode the content-hash proposal is submitted only after
\* the invocation's own create-child transaction, sent directly, has been confirmed as
\* having created the node: an invocation whose create-child failed submits none.
C11_ContentOnlyAfterCreate ==
    \A d \in Deployers:
        proposals[d].kind = "content"
           => /\ \E k \in DOMAIN directTxs[d]: directTxs[d][k].fn = "setSubnodeRecord"
              /\ CreatedDirectlyBy(d)

\* the Safe transaction of p is executed in this step, with its confirmations
ExecutedNow(p) ==
    /\ proposals[p].status # "executed"
    /\ proposals'[p].status = "executed"
    /\ proposals'[p].approvals >= threshold

\* C12: the content hash of a version node changes only in a step that executes a Safe
\* transaction which holds a setContenthash call for that node and has as many
\* confirmations as the Safe's threshold; no invocation sends setContenthash directly.
C12_ContentOnlyThroughSafe ==
    [][/\ \A i \in Slots:
             contents'[i] # contents[i]
                => \E p \in Deployers:
                      /\ ExecutedNow(p)
                      /\ \E k \in DOMAIN proposals'[p].transactions:
                            /\ proposals'[p].transactions[k].fn = "setContenthash"
                            /\ proposals'[p].transactions[k].node[1] = <<"v", i>>
       /\ \A d \in Deployers: \A k \in DOMAIN directTxs'[d]:
             directTxs'[d][k].fn # "setContenthash"]_vars

\* a content proposal that needed a second confirmation was executed
C12_Witness ==
    /\ threshold = 2
    /\ \E i \in Slots: history.writers[i] # <<>>
    /\ \E d \in Deployers:
          /\ proposals[d].kind = "content"
          /\ proposals[d].status = "executed"
          /\ proposals[d].approvals = 2

\* C13: the expiry of every create-child call that a deployment sends or proposes is
\* the fixed far-future constant (2524608000 s, day 29220), whenever the deployment runs.
C13_ExpiryIsFarFuture ==
    \A c \in SentCalls: c.fn = "setSubnodeRecord" => c.expiry = EXPIRY_FAR_FUTURE

\* C14: a personal-mode invocation whose create-child created the node, and whose
\* content-hash proposal could not be submitted or was rejected, has ended with the
\* outcome "partial" (a warning of its own), not with a failure.
C14_PartialDeploymentReported ==
    \A d \in Deployers:
        (/\ CreatedDirectlyBy(d)
         /\ pc[d] \in {"done", "failed"}
         /\ proposals[d].status \in {"none", "rejected"})
           => pc[d] = "done" /\ history.outcome[d] = "partial"

(* ------------------------------------------------------------------------ *)
(* The content-hash codec on its own: a content identifier is encoded by    *)
(* one of the two encoders a deployment uses, and the bytes are decoded by  *)
(* the read side.                                                           *)
(* ------------------------------------------------------------------------ *)

\* no deployment runs while a pure function is evaluated
NoDeployment ==
    /\ network = "mainnet"
    /\ safeAddress = SafeAccount
    /\ threshold = 1
    /\ parent = [owner |-> OwnerAccount, fuses |-> 0]
    /\ nodes = [i \in Slots |-> NoNode]
    /\ contents = [i \in Slots |-> <<>>]
    /\ proposals = [d \in Deployers |-> NoProposal]
    /\ directTxs = [d \in Deployers |-> <<>>]
    /\ pc = [d \in Deployers |-> "idle"]
    /\ opts = [d \in Deployers |-> NoOpts]
    /\ local = [d \in Deployers |-> NoLocal]
    /\ history = NoHistory

deploymentVars == <<network, safeAddress, threshold, parent, nodes, contents, proposals,
                    directTxs, pc, opts, local, history>>

\* the valid content identifiers: v0 ("Qm...", dag-pb, base58btc) and v1 (dag-pb or
\* raw, in any multibase CID.parse knows by its prefix)
ValidCidStrings ==
    {CidString("base58btc", [version |-> 0, codec |-> 112, digest |-> g], TRUE) :
        g \in 0..MaxDigest}
    \cup {CidString(b, [version |-> 1, codec |-> c, digest |-> g], TRUE) :
            b \in {"base32", "base58btc", "base36"}, c \in {112, 85}, g \in 0..MaxDigest}

\* createDeploymentPlan encodes with encodeContentHash, encodeSafeBatchDeploy with
\* encodeContenthash
Encoders == {"encodeContentHash", "encodeContenthash"}

InitCodec ==
    /\ NoDeployment
    /\ \E x \in ValidCidStrings, e \in Encoders:
          calc = [fn |-> "codec", encoder |-> e, x |-> x, stage |-> "input",
                  bytes |-> <<>>, y |-> x]

Encode ==
    /\ calc.fn = "codec"
    /\ calc.stage = "input"
    /\ calc' = [calc EXCEPT
                  !.stage = "encoded",
                  !.bytes = IF calc.encoder = "encodeContentHash"
                            THEN encodeContentHash(CIDParse(calc.x).cid)
                            ELSE encodeContenthash(CIDParse(calc.x).cid)]
    /\ UNCHANGED deploymentVars

Decode ==
    /\ calc.fn = "codec"
    /\ calc.stage = "encoded"
    /\ calc' = [calc EXCEPT !.stage = "decoded", !.y = decodeIPFSContenthash(calc.bytes)]
    /\ UNCHANGED deploymentVars

NextCodec ==
    \/ Encode
    \/ Decode

SpecCodec == InitCodec /\ [][NextCodec]_vars

\* C15: decoding the encoded form of a valid content identifier, v0 or v1, gives the
\* identifier back.
C15_DecodeInvertsEncode ==
    (calc.fn = "codec" /\ calc.stage = "decoded") => calc.y = calc.x

\* invocation d has written nothing and proposed nothing
NothingSent(d) ==
    /\ directTxs[d] = <<>>
    /\ proposals[d] = NoProposal
    /\ \A i \in Slots:
          /\ history.createdBy[i] = <<>> \/ history.createdBy[i][2] # d
          /\ \A k \in DOMAIN history.writers[i]: history.writers[i][k] # d

\* C16: an invocation whose upload gave a string that is no content identifier gets no
\* further than building its plan, where it fails; it has sent no registry write and
\* submitted no proposal, and no plan (hence no content-hash bytes) is ever built from
\* such a string.
C16_InvalidCidAbortsBeforeWrites ==
    \A d \in Deployers:
        /\ (pc[d] \notin {"idle", "done", "failed"} /\ ~opts[d].cid.wellFormed)
              => pc[d] = "detect" /\ NothingSent(d)
        /\ local[d].plan # NoPlan => opts[d].cid.wellFormed
        /\ history.outcome[d] = "invalidCid" => pc[d] = "failed" /\ NothingSent(d)

\* an invocation failed on its content identifier while the other one deployed
C16_Witness ==
    \E d \in Deployers:
        /\ history.outcome[d] = "invalidCid"
        /\ history.scans[d] = 1
        /\ \E e \in Deployers \ {d}: proposals[e] # NoProposal

\* C18: an invocation run with --dry-run sends no registry write (no create-child, no
\* setFuses, no setContenthash) and submits no Safe transaction; it ends after its plan.
C18_DryRunWritesNothing ==
    \A d \in Deployers:
        /\ opts[d].dryRun => pc[d] = "detect" /\ NothingSent(d)
        /\ history.outcome[d] = "dryRun" => pc[d] = "done" /\ NothingSent(d)

\* a dry run has ended, after a scan of a registry that holds versions
C18_Witness ==
    \E d \in Deployers:
        /\ history.outcome[d] = "dryRun"
        /\ history.resolved[d] > 0

\* the calls a Safe-owns-parent deployment of slot n with content identifier cid, run on
\* day now, puts into its Safe transaction
BatchOf(n, cid, now) ==
    BatchTransactions(chainId,
        encodeSafeBatchDeploy(ParentDomain, n, safeAddress, cid, chainId, now + ONE_YEAR))

\* C17: submitting a deployment again with the same inputs (parent, resolved slot,
\* content identifier, Safe) gives the same calls as those already submitted, on
\* whatever day it is run again.
C17_ResubmissionIsIdentical ==
    \A d \in Deployers:
        proposals[d].kind = "batch"
           => \A now \in Times:
                 BatchOf(history.resolved[d], CidOf(d), now) = proposals[d].transactions

(* ------------------------------------------------------------------------ *)
(* The fuse functions on their own: flags of the enumeration are selected   *)
(* one by one and combined.                                                 *)
(* ------------------------------------------------------------------------ *)

FuseSet == {FuseEnum[k] : k \in DOMAIN FuseEnum}

\* the selected flags as the array passed to getFuseValue, in the enumeration's order
AsArray(flags) == SelectSeq(FuseEnum, LAMBDA f: f \in flags)

InitFuses ==
    /\ NoDeployment
    /\ calc = [fn |-> "fuses", flags |-> {}, value |-> getFuseValue(AsArray({}))]

SelectFlag(f) ==
    /\ calc.fn = "fuses"
    /\ f \notin calc.flags
    /\ calc' = [calc EXCEPT !.flags = @ \cup {f},
                            !.value = getFuseValue(AsArray(calc.flags \cup {f}))]
    /\ UNCHANGED deploymentVars

NextFuses == \E f \in FuseSet: SelectFlag(f)

SpecFuses == InitFuses /\ [][NextFuses]_vars

\* bit k of value v
BitSet(v, k) == (v \div (2 ^ k)) % 2 = 1

\* C19: for every subset S of the fuse enumeration, hasFuse(getFuseValue(S), f) is true
\* exactly for the flags f in S; and for all subsets A and B every bit set in
\* getFuseValue(A) is set in getFuseValue(A union B).
C19_CombineAndIsSet ==
    calc.fn = "fuses"
       => /\ \A f \in FuseSet: hasFuse(calc.value, f) <=> f \in calc.flags
          /\ \A B \in SUBSET FuseSet:
                LET both == getFuseValue(AsArray(calc.flags \cup B))
                IN \A k \in 0..(FuseBits - 1): BitSet(calc.value, k) => BitSet(both, k)

\* the permanent-publication flags are selected and combined
C19_Witness ==
    /\ calc.fn = "fuses"
    /\ calc.flags = {CANNOT_UNWRAP, CANNOT_SET_RESOLVER, PARENT_CANNOT_CONTROL,
                     CAN_EXTEND_EXPIRY}
    /\ calc.value = 327689

\* C20: no fuse value of a create-child or setFuses call that a deployment sends or
\* proposes has the CANNOT_BURN_FUSES bit (2) set together with other bits.
C20_NeverBurnsCannotBurnFuses ==
    \A c \in SentCalls:
        c.fn \in {"setSubnodeRecord", "setFuses"}
           => ~(BitSet(c.fuses, 1) /\ c.fuses # 2)

\* a parent burn, a direct create-child and a batch create-child have all been sent
C20_Witness ==
    /\ \E c \in SentCalls: c.fn = "setFuses" /\ c.fuses = 1
    /\ \E c \in SentCalls: c.fn = "setSubnodeRecord" /\ c.fuses = 327689
    /\ \E c \in SentCalls: c.fn = "setSubnodeRecord" /\ c.fuses = 65665

\* the plan invocation d built: createDeploymentPlan on the slot its scan returned and
\* the content identifier of its upload
PlanOf(d) ==
    createDeploymentPlan(ParentDomain, VersionLabel(history.resolved[d]), CidOf(d),
                         safeAddress, chainId, network)

\* C21: in both modes the create-child and setContenthash calls an invocation sends or
\* proposes are its plan's two operations, unmodified: same target, label, owner,
\* resolver, fuse value, expiry and content-hash bytes.
C21_PlanIsSingleSource ==
    \A d \in Deployers:
        /\ \A k \in DOMAIN directTxs[d]:
              directTxs[d][k].fn = "setSubnodeRecord"
                 => directTxs[d][k] = PlanOf(d).createSubdomainTx
        /\ \A k \in DOMAIN proposals[d].transactions:
              LET t == proposals[d].transactions[k]
              IN /\ t.fn = "setSubnodeRecord" => t = PlanOf(d).createSubdomainTx
                 /\ t.fn = "setContenthash" => t = PlanOf(d).setContenthashTx

\* C22: the content hash of a version node is written only while CANNOT_SET_RESOLVER is
\* not burned on that node: no step writes the content hash of a node that carries the
\* fuse when the write is applied.
C22_ContentWrittenBeforeFuse ==
    [][\A i \in Slots:
          contents'[i] # contents[i] => ~hasFuse(nodes'[i].fuses, CANNOT_SET_RESOLVER)]_vars

\* invocation d has sent no create-child call and submitted no proposal
NothingSubmitted(d) ==
    /\ \A k \in DOMAIN directTxs[d]: directTxs[d][k].fn # "setSubnodeRecord"
    /\ proposals[d] = NoProposal

\* C23: an invocation that was cancelled or failed before it sent its create-child
\* transaction (personal mode) or submitted its proposal (Safe mode) has changed nothing
\* in the registry.
C23_FailureBeforeSubmissionHasNoEffect ==
    \A d \in Deployers:
        (pc[d] = "failed" /\ NothingSubmitted(d))
           => /\ ~history.burned[d]
              /\ \A i \in Slots:
                    /\ history.createdBy[i] = <<>> \/ history.createdBy[i][2] # d
                    /\ \A k \in DOMAIN history.writers[i]: history.writers[i][k] # d

\* C24: in personal-owns-parent mode an invocation submits its content-hash proposal
\* only if its own create-child transaction created the node: a create-child that was
\* mined but reverted is not followed by a submission.
C24_RevertedCreateIsNotSuccess ==
    [][\A d \in Deployers:
          (proposals[d] = NoProposal /\ proposals'[d].kind = "content")
             => CreatedDirectlyBy(d)]_vars

\* C25: the slot a scan returns was read during that scan and the read answered with the
\* zero owner: the scan returns no slot whose read threw and, when every slot below the
\* ceiling is occupied, not the slot at the ceiling, which it has not read.
C25_ReturnedSlotWasSeenFree ==
    [][\A d \in Deployers:
          ScanReturns(d)
             => /\ ~history'.readError[d]
                /\ history'.resolved[d] < maxVersions
                /\ ~Exists(nodes[history'.resolved[d]])]_vars

\* invocation d has sent the burn of the parent's fuse
BurnSent(d) == \E k \in DOMAIN directTxs[d]: directTxs[d][k].fn = "setFuses"

\* C26: no create-child call is sent or proposed while the parent's CANNOT_UNWRAP fuse
\* is unburned; an invocation goes on to Step 9 only if the parent has the fuse or its
\* own burn transaction has been sent and mined, and in Safe-owns-parent mode only if
\* the parent has the fuse.
C26_NoCreateWithoutParentFuse ==
    /\ \A c \in SentCalls:
          c.fn = "setSubnodeRecord" => hasFuse(parent.fuses, CANNOT_UNWRAP)
    /\ \A d \in Deployers:
          pc[d] \in {"execute", "createWait", "propose"}
             => /\ hasFuse(parent.fuses, CANNOT_UNWRAP) \/ BurnSent(d)
                /\ local[d].safeOwnsParent => hasFuse(parent.fuses, CANNOT_UNWRAP)

\* one invocation burned the parent's fuse and then sent its create-child, the other
\* was cancelled because the fuse was missing and submitted nothing
C26_Witness ==
    \E d \in Deployers:
        /\ history.burned[d]
        /\ \E k \in DOMAIN directTxs[d]: directTxs[d][k].fn = "setSubnodeRecord"
        /\ \E e \in Deployers \ {d}:
              /\ pc[e] = "failed"
              /\ history.scans[e] = 1
              /\ ~history.readError[e]
              /\ NothingSubmitted(e)
              /\ ~BurnSent(e)

\* C27: every version node a deployment creates, in either mode, is owned by the Safe:
\* every create-child call sent or proposed names the Safe as the owner, and every node
\* created by a deployment has the Safe as its owner in the registry.
C27_NodeOwnerIsSafe ==
    /\ \A c \in SentCalls: c.fn = "setSubnodeRecord" => SameAccount(c.owner, SafeAccount)
    /\ \A i \in Slots: history.createdBy[i] # <<>> => nodes[i].owner = SafeAccount

\* one node was created by a direct create-child, another by a Safe batch
C27_Witness ==
    /\ \E i \in Slots: history.createdBy[i] # <<>> /\ history.createdBy[i][1] = "direct"
    /\ \E i \in Slots: CreatedByBatch(i)

(* ------------------------------------------------------------------------ *)
(* The version scans on their own.  The registry answers each read with an  *)
(* owner, zero or not, or with an error; a name lapses at its expiry, so a  *)
(* free slot may lie below an occupied one.  detectNextVersion runs read by *)
(* read; the scans of the deployment scripts are evaluated as a whole.      *)
(* ------------------------------------------------------------------------ *)

\* the scans of the Safe-SDK, safe-integrated and Safe-direct deployment scripts
Scripts == {"safe-sdk", "safe-integrated", "safe-direct"}

\* what the catch block of a script's loop does: the Safe-direct script breaks, the
\* other two go on with the next slot
BreaksOnError(script) == script = "safe-direct"

RECURSIVE ScriptScanFrom(_, _, _, _, _, _)
\* the for loop of a script from iteration i on: no break at a zero owner
ScriptScanFrom(i, limit, owners, failing, breakOnError, version) ==
    IF i >= limit THEN version
    ELSE LET read == ReadOwner(owners, failing, i) IN
         IF ~read.ok
         THEN IF breakOnError THEN version
              ELSE ScriptScanFrom(i + 1, limit, owners, failing, breakOnError, version)
         ELSE IF read.owner # ZERO_ADDRESS
         THEN ScriptScanFrom(i + 1, limit, owners, failing, breakOnError, i + 1)
         ELSE ScriptScanFrom(i + 1, limit, owners, failing, breakOnError, version)

\* let version = 0; for (let i = 0; i < 100; i++) { ... }
ScriptScan(script, owners, failing) ==
    ScriptScanFrom(0, scriptVersions, owners, failing, BreaksOnError(script), 0)

\* no script scan has run
NotRun == [version |-> 0, ran |-> FALSE]

InitScan ==
    /\ NoDeployment
    /\ \E owners \in [Slots -> {ZERO_ADDRESS, SafeAccount}], failing \in SUBSET Slots:
          calc = [fn |-> "scan", owners |-> owners, failing |-> failing,
                  i |-> 0, existing |-> <<>>, nextVersion |-> 0,
                  reads |-> <<>>, returned |-> FALSE,
                  scripts |-> [s \in Scripts |-> NotRun]]

\* the loop condition with <= in the place of <
LoopContinuesAtLimit(i, limit) == i <= limit

\* for (let i = 0; i < maxVersions; i++)
LoopContinues(i, limit) == i < limit

\* one iteration of detectNextVersion's loop: the read of slot i, and the return that
\* follows a break
ReadSlot ==
    /\ calc.fn = "scan"
    /\ ~calc.returned
    /\ LoopContinues(calc.i, maxVersions)
    /\ LET read == ReadOwner(calc.owners, calc.failing, calc.i) IN
       calc' = IF ~read.ok \/ read.owner = ZERO_ADDRESS
               THEN [calc EXCEPT !.reads = Append(@, calc.i), !.returned = TRUE]
               ELSE [calc EXCEPT !.reads = Append(@, calc.i),
                                 !.existing = Append(@, VersionLabel(calc.i)),
                                 !.nextVersion = calc.i + 1,
                                 !.i = calc.i + 1]
    /\ UNCHANGED deploymentVars

\* the loop ends by its condition: return { version: nextVersion, existing }
ReturnScan ==
    /\ calc.fn = "scan"
    /\ ~calc.returned
    /\ ~LoopContinues(calc.i, maxVersions)
    /\ calc' = [calc EXCEPT !.returned = TRUE]
    /\ UNCHANGED deploymentVars

\* a deployment script scans the same registry
RunScript(s) ==
    /\ calc.fn = "scan"
    /\ ~calc.scripts[s].ran
    /\ calc' = [calc EXCEPT !.scripts[s] =
                   [version |-> ScriptScan(s, calc.owners, calc.failing), ran |-> TRUE]]
    /\ UNCHANGED deploymentVars

NextScan ==
    \/ ReadSlot
    \/ ReturnScan
    \/ \E s \in Scripts: RunScript(s)

\* every await of the loop settles: a read returns or throws
SpecScan == InitScan /\ [][NextScan]_vars /\ WF_vars(ReadSlot \/ ReturnScan)

\* C28: on the same registry, detectNextVersion and the scans of the three deployment
\* scripts return the same next slot, also when a free slot lies below an occupied one
\* and when a read fails.
C28_AllScansAgree ==
    (/\ calc.fn = "scan"
     /\ calc.returned
     /\ \A s \in Scripts: calc.scripts[s].ran)
       => \A s \in Scripts: calc.scripts[s].version = calc.nextVersion

\* C29: whatever the registry answers, detectNextVersion reads at most maxVersions
\* slots, the slots 0, 1, 2, ... in this order and each once, and then returns (what
\* the loop as a whole computes).
C29_ScanIsBounded ==
    /\ [](calc.fn = "scan"
            => /\ Len(calc.reads) <= maxVersions
               /\ \A k \in DOMAIN calc.reads: calc.reads[k] = k - 1
               /\ calc.returned
                     => [version |-> calc.nextVersion, existing |-> calc.existing]
                           = detectNextVersion(calc.owners, calc.failing, maxVersions))
    /\ <>(calc.fn = "scan" /\ calc.returned)

\* a scan that read every slot below the ceiling, found each occupied, and returned
C29_Witness ==
    /\ calc.fn = "scan"
    /\ calc.returned
    /\ Len(calc.reads) = maxVersions
    /\ calc.nextVersion = maxVersions

\* C30: for every accepted network setting, the name wrapper that a deployment's
\* create-child call is sent to (the wrapper of the chain the deployment reads and
\* writes) and the resolver its calls name are those of the configured network, in
\* both modes.
C30_NetworkIsConsistent ==
    \A c \in SentCalls:
        /\ c.fn = "setSubnodeRecord"
              => /\ c.to = <<"NameWrapper", network>>
                 /\ c.resolver = <<"PublicResolver", network>>
        /\ c.fn = "setContenthash" => c.to = <<"PublicResolver", network>>

====
